---- MODULE Spec2Model ----
(***************************************************************************)
(* Go struct signature helper: the cursor-context scanner                  *)
(* (GoAnalyzer.findStructLiteralContext, countActiveFieldIndex), the hover *)
(* text parser (parseStructFromHover, parseInlineStruct, parseFields) and  *)
(* the signature help provider built on them.                              *)
(*                                                                         *)
(* Texts are sequences of characters, each a string.  Offsets are zero-    *)
(* based, as in the source: the character the source calls text[i] is      *)
(* text[i+1] here.                                                         *)
(***************************************************************************)
EXTENDS Integers, Sequences, FiniteSets, TLC

VARIABLES pc, text, offset, span, body, content, hover, structContext, result,
          calls

vars == <<pc, text, offset, span, body, content, hover, structContext, result,
          calls>>

\* ------------------------------------------------------------------ bounds

\* Longest document text made of braces, commas, a type name and a blank.
MaxNest == 5

\* Longest text before the opening brace of the document texts that vary
\* the type name.
MaxName == 4

\* Longest span given to countActiveFieldIndex.
MaxSpan == 4

\* Most pieces a struct body given to parseFields is put together from.
MaxBodyTokens == 4

\* Most pieces a hover text given to parseStructFromHover is put together
\* from.
MaxHoverTokens == 4

\* Longest document text of a provideSignatureHelp request.
MaxDocLen == 3

\* Most provideSignatureHelp calls in progress at once.
MaxCalls == 2

\* ------------------------------------------------------- character classes

Upper ==
    {"A", "B", "C", "D", "E", "F", "G", "H", "I", "J", "K", "L", "M",
     "N", "O", "P", "Q", "R", "S", "T", "U", "V", "W", "X", "Y", "Z"}

Lower ==
    {"a", "b", "c", "d", "e", "f", "g", "h", "i", "j", "k", "l", "m",
     "n", "o", "p", "q", "r", "s", "t", "u", "v", "w", "x", "y", "z"}

Digit == {"0", "1", "2", "3", "4", "5", "6", "7", "8", "9"}

\* The backtick character, which a TLA+ string cannot hold.
Backtick == "<backtick>"

\* \s of the regular expressions, and what trim/trimEnd remove.
WhiteSpace == {" ", "\t", "\n", "\r"}

\* [a-zA-Z0-9_], which is also \w.
WordChar == Upper \cup Lower \cup Digit \cup {"_"}

\* [A-Z_]
TypeStartChar == Upper \cup {"_"}

\* ------------------------------------------------------------ text helpers

\* String.prototype.substring(a, b) for 0 <= a <= b <= length.
Substring(s, a, b) == SubSeq(s, a + 1, b)

\* The offset at which the maximal run of characters of class cls that
\* starts at offset a ends (a itself when the run is empty): what a greedy
\* cls* consumes.
RECURSIVE RunEnd(_, _, _)
RunEnd(s, a, cls) ==
    IF a < Len(s) /\ s[a + 1] \in cls THEN RunEnd(s, a + 1, cls) ELSE a

\* String.prototype.trimEnd
RECURSIVE TrimEnd(_)
TrimEnd(s) ==
    IF Len(s) > 0 /\ s[Len(s)] \in WhiteSpace
    THEN TrimEnd(SubSeq(s, 1, Len(s) - 1))
    ELSE s

\* String.prototype.trim
Trim(s) ==
    LET e == TrimEnd(s)
        a == RunEnd(e, 0, WhiteSpace)
    IN  Substring(e, a, Len(e))

\* Whether the literal lit occurs in s at offset a.
StartsWithAt(s, a, lit) ==
    /\ a + Len(lit) <= Len(s)
    /\ Substring(s, a, a + Len(lit)) = lit

\* The characters of s.
Chars(s) == {s[k] : k \in 1..Len(s)}

\* An absent (undefined) result.
Absent == [defined |-> FALSE]

\* ------------------------------------------------- countActiveFieldIndex

\* The scanner's variables before the first character.
ScanInit ==
    [index |-> 0, braceDepth |-> 0, parenDepth |-> 0, bracketDepth |-> 0,
     inDoubleQuote |-> FALSE, inBacktick |-> FALSE, prevChar |-> ""]

\* The escape test of a double quote: prevChar !== '\\'.
QuoteNotEscaped(st) == st.prevChar # "\\"

\* A plausible slip: the bracket depth is left out of the comma test.
CommaCountsIgnoringBrackets(st) ==
    /\ st.braceDepth = 0
    /\ st.parenDepth = 0

\* The depth test of a comma.
CommaCounts(st) ==
    /\ st.braceDepth = 0
    /\ st.parenDepth = 0
    /\ st.bracketDepth = 0

\* One iteration of the loop over the characters.
ScanStep(st, char) ==
    LET st1 ==
            IF char = "\"" /\ ~st.inBacktick /\ QuoteNotEscaped(st)
            THEN [st EXCEPT !.inDoubleQuote = ~st.inDoubleQuote]
            ELSE IF char = Backtick /\ ~st.inDoubleQuote
            THEN [st EXCEPT !.inBacktick = ~st.inBacktick]
            ELSE IF ~st.inDoubleQuote /\ ~st.inBacktick
            THEN IF char = "{" THEN [st EXCEPT !.braceDepth = @ + 1]
                 ELSE IF char = "}" THEN [st EXCEPT !.braceDepth = @ - 1]
                 ELSE IF char = "(" THEN [st EXCEPT !.parenDepth = @ + 1]
                 ELSE IF char = ")" THEN [st EXCEPT !.parenDepth = @ - 1]
                 ELSE IF char = "[" THEN [st EXCEPT !.bracketDepth = @ + 1]
                 ELSE IF char = "]" THEN [st EXCEPT !.bracketDepth = @ - 1]
                 ELSE IF char = "," /\ CommaCounts(st)
                 THEN [st EXCEPT !.index = @ + 1]
                 ELSE st
            ELSE st
    IN  [st1 EXCEPT !.prevChar = char]

\* The scanner's variables after the first n characters of t.
RECURSIVE ScanState(_, _)
ScanState(t, n) ==
    IF n = 0 THEN ScanInit ELSE ScanStep(ScanState(t, n - 1), t[n])

countActiveFieldIndex(t) == ScanState(t, Len(t)).index

\* ----------------------------------------------- findStructLiteralContext

\* The backward loop from i with the given braceDepth: the offset of the
\* opening brace it stops at, or -1.
RECURSIVE ScanBack(_, _, _)
ScanBack(t, i, braceDepth) ==
    IF i < 0 THEN -1
    ELSE IF t[i + 1] = "}" THEN ScanBack(t, i - 1, braceDepth + 1)
    ELSE IF t[i + 1] = "{"
         THEN IF braceDepth = 0 THEN i ELSE ScanBack(t, i - 1, braceDepth - 1)
    ELSE ScanBack(t, i - 1, braceDepth)

\* A plausible slip: the nearest opening brace, closed or not.
RECURSIVE ScanBackNearest(_, _)
ScanBackNearest(t, i) ==
    IF i < 0 THEN -1
    ELSE IF t[i + 1] = "{" THEN i
    ELSE ScanBackNearest(t, i - 1)

FindNearestOpenBrace(t, off) == ScanBackNearest(t, off - 1)

\* A plausible slip: the loop has no break, so the last assignment, the
\* outermost unclosed brace, wins.
RECURSIVE ScanBackOutermost(_, _, _, _)
ScanBackOutermost(t, i, braceDepth, found) ==
    IF i < 0 THEN found
    ELSE IF t[i + 1] = "}" THEN ScanBackOutermost(t, i - 1, braceDepth + 1, found)
    ELSE IF t[i + 1] = "{"
         THEN IF braceDepth = 0 THEN ScanBackOutermost(t, i - 1, braceDepth, i)
              ELSE ScanBackOutermost(t, i - 1, braceDepth - 1, found)
    ELSE ScanBackOutermost(t, i - 1, braceDepth, found)

FindOutermostOpenBrace(t, off) == ScanBackOutermost(t, off - 1, 0, -1)

\* The loop of findStructLiteralContext: openBraceOffset.
FindOpenBrace(t, off) == ScanBack(t, off - 1, 0)

\* Whether /(&?\s*)([A-Z_][a-zA-Z0-9_]*(?:\.[A-Z_][a-zA-Z0-9_]*)?)$/ matches
\* s starting at offset a.  Every quantifier is followed by a character it
\* cannot itself consume, so only the greedy choice can succeed.
TypeMatchAt(s, a) ==
    LET afterAmp == IF a < Len(s) /\ s[a + 1] = "&" THEN a + 1 ELSE a
        g1End == RunEnd(s, afterAmp, WhiteSpace)
        id1End == RunEnd(s, g1End, WordChar)
    IN  /\ g1End < Len(s)
        /\ s[g1End + 1] \in TypeStartChar
        /\ \/ id1End = Len(s)
           \/ /\ id1End + 1 < Len(s)
              /\ s[id1End + 1] = "."
              /\ s[id1End + 2] \in TypeStartChar
              /\ RunEnd(s, id1End + 1, WordChar) = Len(s)

\* The groups of a match that starts at offset a.
TypeMatchGroups(s, a) ==
    LET afterAmp == IF s[a + 1] = "&" THEN a + 1 ELSE a
        g1End == RunEnd(s, afterAmp, WhiteSpace)
    IN  [defined |-> TRUE,
         all |-> Substring(s, a, Len(s)),
         g1 |-> Substring(s, a, g1End),
         g2 |-> Substring(s, g1End, Len(s))]

\* A plausible slip: the shortest match at the end of the text rather than
\* the leftmost one.
TypeMatchRightmost(s) ==
    LET starts == {a \in 0..Len(s) : TypeMatchAt(s, a)}
    IN  IF starts = {} THEN Absent
        ELSE TypeMatchGroups(s, CHOOSE x \in starts : \A y \in starts : x >= y)

\* String.prototype.match with that expression: the leftmost offset at
\* which it matches decides the groups.
TypeMatch(s) ==
    LET starts == {a \in 0..Len(s) : TypeMatchAt(s, a)}
    IN  IF starts = {} THEN Absent
        ELSE TypeMatchGroups(s, CHOOSE x \in starts : \A y \in starts : x <= y)

\* A plausible slip: the offset of the whole match, group 1 included, taken
\* for the offset of the type name.
findStructLiteralContextAtMatchStart(t, off) ==
    LET openBraceOffset == FindOpenBrace(t, off)
        textBeforeBrace == TrimEnd(Substring(t, 0, openBraceOffset))
        typeMatch == TypeMatch(textBeforeBrace)
        textInsideBraces == Substring(t, openBraceOffset + 1, off)
    IN  IF openBraceOffset = -1 THEN Absent
        ELSE IF ~typeMatch.defined THEN Absent
        ELSE [defined |-> TRUE,
              typeName |-> typeMatch.g2,
              typeStartOffset |-> Len(textBeforeBrace) - Len(typeMatch.all),
              activeFieldIndex |-> countActiveFieldIndex(textInsideBraces)]

findStructLiteralContext(t, off) ==
    LET openBraceOffset == FindOpenBrace(t, off)
        textBeforeBrace == TrimEnd(Substring(t, 0, openBraceOffset))
        typeMatch == TypeMatch(textBeforeBrace)
        textInsideBraces == Substring(t, openBraceOffset + 1, off)
    IN  IF openBraceOffset = -1 THEN Absent
        ELSE IF ~typeMatch.defined THEN Absent
        ELSE [defined |-> TRUE,
              typeName |-> typeMatch.g2,
              typeStartOffset |->
                  Len(textBeforeBrace) - Len(typeMatch.all) + Len(typeMatch.g1),
              activeFieldIndex |-> countActiveFieldIndex(textInsideBraces)]

\* ------------------------------------------------------------- parseFields

\* The offset at which the maximal run of characters outside excl that
\* starts at offset a ends: what a greedy [^...]* consumes.
RECURSIVE RunEndNot(_, _, _)
RunEndNot(s, a, excl) ==
    IF a < Len(s) /\ s[a + 1] \notin excl THEN RunEndNot(s, a + 1, excl) ELSE a

\* String.prototype.split on a character class: the pieces between the
\* separators, empty ones included.
RECURSIVE Split(_, _)
Split(s, seps) ==
    LET e == RunEndNot(s, 0, seps)
    IN  IF e = Len(s) THEN <<s>>
        ELSE <<Substring(s, 0, e)>> \o Split(Substring(s, e + 1, Len(s)), seps)

\* Array.prototype.filter(l => l) after map(l => l.trim()).
RECURSIVE TrimmedNonEmpty(_)
TrimmedNonEmpty(ls) ==
    IF ls = <<>> THEN <<>>
    ELSE (IF Trim(Head(ls)) = <<>> THEN <<>> ELSE <<Trim(Head(ls))>>)
             \o TrimmedNonEmpty(Tail(ls))

\* fieldsBlock.split(/[;\n]/).map(l => l.trim()).filter(l => l)
Lines(fieldsBlock) == TrimmedNonEmpty(Split(fieldsBlock, {";", "\n"}))

\* A value that is present.
Some(v) == [defined |-> TRUE, value |-> v]

\* What . does not match.
LineTerminator == {"\n", "\r"}

\* (?:\s*\/\/\s*(.*))?$ from offset p: the match, with group 4, or Absent.
\* The group is tried first; it cannot match at the end of the line, where
\* alone the expression matches without it.
CommentTail(line, p) ==
    LET q == RunEnd(line, p, WhiteSpace)
        r == RunEnd(line, q + 2, WhiteSpace)
    IN  IF StartsWithAt(line, q, <<"/", "/">>)
        THEN IF Chars(Substring(line, r, Len(line))) \cap LineTerminator = {}
             THEN Some([documentation |-> Some(Substring(line, r, Len(line)))])
             ELSE Absent
        ELSE IF p = Len(line) THEN Some([documentation |-> Absent])
        ELSE Absent

\* (?:\s+`([^`]*)`)?(?:\s*\/\/\s*(.*))?$ from offset k: the match, with
\* groups 3 and 4, or Absent.  The tag group is tried first; where it
\* matches, the expression cannot match without it.
FieldTail(line, k) ==
    LET t == RunEnd(line, k, WhiteSpace)
        u == RunEndNot(line, t + 1, {Backtick})
        tagged == /\ t > k
                  /\ t < Len(line)
                  /\ line[t + 1] = Backtick
                  /\ u < Len(line)
        rest == IF tagged THEN CommentTail(line, u + 1) ELSE CommentTail(line, k)
    IN  IF ~rest.defined THEN Absent
        ELSE Some([tag |-> IF tagged THEN Some(Substring(line, t + 1, u)) ELSE Absent,
                   documentation |-> rest.value.documentation])

\* line.match(/^(\w+)\s+([^`\/\n]+?)(?:\s+`([^`]*)`)?(?:\s*\/\/\s*(.*))?$/):
\* the field of the line, or Absent.  \w+ must take the whole first word;
\* \s+ is greedy, so the longest run of white space that leads to a match
\* wins; group 2 is lazy, so then the shortest type does.
FieldMatch(line) ==
    LET nameEnd == RunEnd(line, 0, WordChar)
        wsMax == RunEnd(line, nameEnd, WhiteSpace)
        ways == {w \in ((nameEnd + 1)..wsMax) \X (1..Len(line)) :
                    /\ nameEnd >= 1
                    /\ w[2] > w[1]
                    /\ w[2] <= RunEndNot(line, w[1], {Backtick, "/", "\n"})
                    /\ FieldTail(line, w[2]).defined}
    IN  IF ways = {} THEN Absent
        ELSE LET w == CHOOSE x \in ways :
                          \A y \in ways :
                              \/ x[1] > y[1]
                              \/ x[1] = y[1] /\ x[2] <= y[2]
                 tail == FieldTail(line, w[2]).value
             IN  Some([name |-> Substring(line, 0, nameEnd),
                       type |-> Trim(Substring(line, w[1], w[2])),
                       tag |-> tail.tag,
                       documentation |-> tail.documentation])

\* A plausible slip: unshift for push, so the fields come out last first.
RECURSIVE ParseLinesPrepending(_, _)
ParseLinesPrepending(lines, fields) ==
    IF lines = <<>> THEN fields
    ELSE LET line == Head(lines)
         IN  IF StartsWithAt(line, 0, <<"/", "/">>)
             THEN ParseLinesPrepending(Tail(lines), fields)
             ELSE IF FieldMatch(line).defined
             THEN ParseLinesPrepending(Tail(lines), <<FieldMatch(line).value>> \o fields)
             ELSE ParseLinesPrepending(Tail(lines), fields)

\* The loop over the lines, with the fields pushed so far.
RECURSIVE ParseLines(_, _)
ParseLines(lines, fields) ==
    IF lines = <<>> THEN fields
    ELSE LET line == Head(lines)
         IN  IF StartsWithAt(line, 0, <<"/", "/">>)
             THEN ParseLines(Tail(lines), fields)
             ELSE IF FieldMatch(line).defined
             THEN ParseLines(Tail(lines), Append(fields, FieldMatch(line).value))
             ELSE ParseLines(Tail(lines), fields)

parseFields(fieldsBlock) == ParseLines(Lines(fieldsBlock), <<>>)

\* ---------------------------------------------------- parseStructFromHover

\* The smallest member of a non-empty set of numbers.
Least(S) == CHOOSE x \in S : \A y \in S : x <= y

FenceMark == <<Backtick, Backtick, Backtick>>

\* content.match(/```go\n([\s\S]*?)\n```/): the leftmost opening fence that
\* a closing one follows, and the nearest such closing fence.
CodeBlockMatch(c) ==
    LET open == FenceMark \o <<"g", "o", "\n">>
        close == <<"\n">> \o FenceMark
        ends(a) == {e \in (a + Len(open))..Len(c) : StartsWithAt(c, e, close)}
        starts == {a \in 0..Len(c) : StartsWithAt(c, a, open) /\ ends(a) # {}}
    IN  IF starts = {} THEN Absent
        ELSE [defined |-> TRUE,
              index |-> Least(starts),
              g1 |-> Substring(c, Least(starts) + Len(open), Least(ends(Least(starts))))]

\* \s+struct\s*\{ from offset a, then a body up to the first closing brace:
\* the body, or Absent.  Shared by the two struct expressions, whose bodies
\* ([\s\S]*? before \} and [^}]* before \}) both end at that brace.
StructTail(c, a) ==
    LET kw == RunEnd(c, a, WhiteSpace)
        brace == RunEnd(c, kw + 6, WhiteSpace)
        close == RunEndNot(c, brace + 1, {"}"})
    IN  IF /\ kw > a
           /\ StartsWithAt(c, kw, <<"s", "t", "r", "u", "c", "t">>)
           /\ brace < Len(c)
           /\ c[brace + 1] = "{"
           /\ close < Len(c)
        THEN Some(Substring(c, brace + 1, close))
        ELSE Absent

\* /type\s+(\w+)\s+struct\s*\{([\s\S]*?)\}/ starting at offset a.
StructMatchAt(c, a) ==
    LET nameStart == RunEnd(c, a + 4, WhiteSpace)
        nameEnd == RunEnd(c, nameStart, WordChar)
    IN  IF /\ StartsWithAt(c, a, <<"t", "y", "p", "e">>)
           /\ nameStart > a + 4
           /\ nameEnd > nameStart
           /\ StructTail(c, nameEnd).defined
        THEN [defined |-> TRUE,
              g1 |-> Substring(c, nameStart, nameEnd),
              g2 |-> StructTail(c, nameEnd).value]
        ELSE Absent

\* codeContent.match(/type\s+(\w+)\s+struct\s*\{([\s\S]*?)\}/)
StructMatch(c) ==
    LET starts == {a \in 0..Len(c) : StructMatchAt(c, a).defined}
    IN  IF starts = {} THEN Absent ELSE StructMatchAt(c, Least(starts))

\* /(\w+)\s+struct\s*\{([^}]*)\}/ starting at offset a.
InlineMatchAt(c, a) ==
    LET nameEnd == RunEnd(c, a, WordChar)
    IN  IF nameEnd > a /\ StructTail(c, nameEnd).defined
        THEN [defined |-> TRUE,
              g1 |-> Substring(c, a, nameEnd),
              g2 |-> StructTail(c, nameEnd).value]
        ELSE Absent

parseInlineStruct(c) ==
    LET starts == {a \in 0..Len(c) : InlineMatchAt(c, a).defined}
        match == InlineMatchAt(c, Least(starts))
    IN  IF starts = {} THEN Absent
        ELSE [defined |-> TRUE,
              name |-> match.g1,
              fields |-> parseFields(match.g2),
              documentation |-> Absent]

\* content.match(/^([\s\S]*?)```/), trimmed; an empty text counts as none.
Documentation(c) ==
    LET fences == {a \in 0..Len(c) : StartsWithAt(c, a, FenceMark)}
    IN  IF fences = {} THEN Absent
        ELSE IF Trim(Substring(c, 0, Least(fences))) = <<>> THEN Absent
        ELSE Some(Trim(Substring(c, 0, Least(fences))))

parseStructFromHover(c) ==
    LET codeBlockMatch == CodeBlockMatch(c)
        codeContent == IF codeBlockMatch.defined THEN codeBlockMatch.g1 ELSE c
        structMatch == StructMatch(codeContent)
    IN  IF ~structMatch.defined THEN parseInlineStruct(codeContent)
        ELSE [defined |-> TRUE,
              name |-> structMatch.g1,
              fields |-> parseFields(structMatch.g2),
              documentation |-> Documentation(c)]

\* ------------------------------------------------------------ getStructInfo

\* The contents of all hovers, in the order the two loops visit them.
RECURSIVE AllContents(_)
AllContents(hovers) ==
    IF hovers = <<>> THEN <<>> ELSE Head(hovers) \o AllContents(Tail(hovers))

\* The first content that is a string, a MarkdownString or an object with a
\* value decides; a content that is none of these is passed over.
extractHoverContent(hovers) ==
    LET contents == AllContents(hovers)
        usable == {i \in 1..Len(contents) :
                      contents[i].kind \in {"string", "markdown", "marked"}}
    IN  IF usable = {} THEN Absent ELSE Some(contents[Least(usable)].value)

\* What getStructInfo does with the hovers the command resolved with.
StructInfoOf(hovers) ==
    IF ~hovers.defined THEN Absent
    ELSE IF Len(hovers.value) = 0 THEN Absent
    ELSE LET hoverContent == extractHoverContent(hovers.value)
         IN  IF ~hoverContent.defined THEN Absent
             ELSE IF hoverContent.value = <<>> THEN Absent
             ELSE parseStructFromHover(hoverContent.value)

\* A plausible slip: no try/catch, so a rejection of the hover command
\* leaves getStructInfo as an exception.
getStructInfoWithoutCatch(response) ==
    IF response.threw THEN [threw |-> TRUE, value |-> Absent]
    ELSE [threw |-> FALSE, value |-> StructInfoOf(response.hovers)]

\* getStructInfo after its await: response is what the hover command
\* settled with.  The catch turns a rejection into undefined.
getStructInfo(response) ==
    IF response.threw THEN [threw |-> FALSE, value |-> Absent]
    ELSE [threw |-> FALSE, value |-> StructInfoOf(response.hovers)]

\* ------------------------------------------------------- buildSignatureHelp

\* Array.prototype.join
RECURSIVE Join(_, _)
Join(ts, sep) ==
    IF ts = <<>> THEN <<>>
    ELSE IF Len(ts) = 1 THEN Head(ts)
    ELSE Head(ts) \o sep \o Join(Tail(ts), sep)

\* `${f.name} ${f.type}`
FieldLabel(f) == f.name \o <<" ">> \o f.type

Min(a, b) == IF a <= b THEN a ELSE b

\* The parameters of the fields from the i-th on, the first of them at
\* currentOffset of the label.
RECURSIVE Parameters(_, _, _)
Parameters(fields, i, currentOffset) ==
    IF i > Len(fields) THEN <<>>
    ELSE <<[label |-> <<currentOffset, currentOffset + Len(FieldLabel(fields[i]))>>,
            documentation |-> fields[i].documentation]>>
             \o Parameters(fields, i + 1,
                           currentOffset + Len(FieldLabel(fields[i])) + 2)

buildSignatureHelp(structInfo, activeFieldIndex) ==
    LET fieldLabels == [i \in 1..Len(structInfo.fields) |->
                           FieldLabel(structInfo.fields[i])]
        signatureLabel ==
            structInfo.name \o <<"{">> \o Join(fieldLabels, <<",", " ">>) \o <<"}">>
        signature ==
            [label |-> signatureLabel,
             documentation |-> structInfo.documentation,
             parameters |-> Parameters(structInfo.fields, 1, Len(structInfo.name) + 1)]
    IN  [defined |-> TRUE,
         signatures |-> <<signature>>,
         activeSignature |-> 0,
         activeParameter |-> Min(activeFieldIndex, Len(structInfo.fields) - 1)]

\* ------------------------------------------------------------------ inputs

RECURSIVE SeqsUpTo(_, _)
SeqsUpTo(S, n) ==
    IF n = 0 THEN {<<>>}
    ELSE LET shorter == SeqsUpTo(S, n - 1)
         IN  shorter \cup {Append(s, c) : s \in {x \in shorter : Len(x) = n - 1}, c \in S}

\* Document texts that vary the nesting: braces, commas, a type name and a
\* blank.
NestChars == {"A", " ", "{", "}", ","}

\* Document texts that vary what stands before an opening brace: upper and
\* lower case letters, the underscore, the qualifier dot, the pointer
\* marker and a blank.
NameChars == {"A", "a", "_", ".", "&", " "}

Texts ==
    SeqsUpTo(NestChars, MaxNest)
        \cup {Append(s, "{") : s \in SeqsUpTo(NameChars, MaxName)}

\* Characters of the spans: every character the scanner distinguishes, and
\* one it does not.
SpanChars == {",", "\"", Backtick, "\\", "{", "}", "(", ")", "[", "]", "a"}

Spans == SeqsUpTo(SpanChars, MaxSpan)

\* The concatenation of the texts of ts.
RECURSIVE Concat(_)
Concat(ts) == IF ts = <<>> THEN <<>> ELSE Head(ts) \o Concat(Tail(ts))

\* Pieces of struct bodies: two fields, a tag without and with a semicolon,
\* a trailing comment, a comment-only line, both separators, a lone word (an
\* embedded type) on a line of its own and a lone slash.
BodyTokens ==
    {<<"N", " ", "t">>,
     <<"M", " ", "u">>,
     <<" ", Backtick, "k", Backtick>>,
     <<" ", Backtick, "k", ";", "k", Backtick>>,
     <<" ", "/", "/", " ", "c">>,
     <<"/", "/", " ", "c">>,
     <<";">>,
     <<"\n">>,
     <<"e", "\n">>,
     <<"/">>}

Bodies == {Concat(ts) : ts \in SeqsUpTo(BodyTokens, MaxBodyTokens)}

\* Pieces of hover texts: a word of documentation, the opening and closing
\* fence of a go block, a bare fence, a type definition with two fields, a
\* compact struct without the type keyword, and a type definition without
\* fields.
DocWord == <<"d">>

GoFenceOpen == FenceMark \o <<"g", "o", "\n">>

GoFenceClose == <<"\n">> \o FenceMark

FullStruct ==
    <<"t", "y", "p", "e", " ", "S", " ", "s", "t", "r", "u", "c", "t", " ", "{",
      "N", " ", "t", "\n", "M", " ", "u", "}">>

InlineStruct ==
    <<"S", " ", "s", "t", "r", "u", "c", "t", " ", "{", "N", " ", "t", "}">>

EmptyStruct ==
    <<"t", "y", "p", "e", " ", "S", " ", "s", "t", "r", "u", "c", "t", "{", "}">>

HoverTokens ==
    {DocWord, GoFenceOpen, GoFenceClose, FenceMark, FullStruct, InlineStruct,
     EmptyStruct}

HoverTexts == {Concat(ts) : ts \in SeqsUpTo(HoverTokens, MaxHoverTokens)}

\* Document texts of the requests.
DocChars == {"A", "{", "}", ","}

DocTexts == SeqsUpTo(DocChars, MaxDocLen)

\* Hover texts of the replies: an empty one, one that describes no struct,
\* and structs with two fields, one field and none, bare, in a go block and
\* with documentation before the block.
ReplyTexts ==
    {<<>>,
     DocWord,
     FullStruct,
     InlineStruct,
     EmptyStruct,
     GoFenceOpen \o InlineStruct \o GoFenceClose,
     DocWord \o <<"\n">> \o GoFenceOpen \o FullStruct \o GoFenceClose,
     DocWord \o <<"\n">> \o GoFenceOpen \o EmptyStruct \o GoFenceClose}

\* What the hover command can resolve with: nothing, no hover, a hover
\* without contents, one with a content that is no text, and a text as a
\* plain string or, after an empty hover and such a content, as a
\* MarkdownString.
HoverLists ==
    {Absent,
     Some(<<>>),
     Some(<< <<>> >>),
     Some(<< <<[kind |-> "other", value |-> <<>>]>> >>)}
        \cup {Some(<< <<[kind |-> "string", value |-> c]>> >>) : c \in ReplyTexts}
        \cup {Some(<< <<>>,
                     <<[kind |-> "other", value |-> <<>>],
                       [kind |-> "markdown", value |-> c]>> >>) : c \in ReplyTexts}

\* The calls of provideSignatureHelp that can be in progress together.
Requests == 1..MaxCalls

\* Documents of the overlapping calls: one without a literal, and a literal
\* of type A with no and with one comma typed.
CallTexts ==
    {<<>>,
     <<"A", "{">>,
     <<"A", "{", ",">>}

\* What the hover command settles with for the overlapping calls: nothing,
\* and a struct with two fields.
CallHoverLists ==
    {Absent,
     Some(<< <<[kind |-> "string", value |-> FullStruct]>> >>)}

\* ------------------------------------------------------------- the machine

\* The locals of a call of provideSignatureHelp that has not begun.  With
\* them goes a record no step reads: the calls that were suspended at the
\* moment this call was resumed.
IdleCall ==
    [pc |-> "idle",
     text |-> <<>>,
     offset |-> 0,
     structContext |-> Absent,
     hover |-> Absent,
     result |-> Absent,
     resumedBefore |-> {}]

Init ==
    /\ pc = "idle"
    /\ text = <<>>
    /\ offset = 0
    /\ span = <<>>
    /\ body = <<>>
    /\ content = <<>>
    /\ hover = Absent
    /\ structContext = Absent
    /\ result = Absent
    /\ calls = [r \in Requests |-> IdleCall]

\* A caller asks for the context of offset off in document text t.
CallFindStructLiteralContext ==
    /\ pc = "idle"
    /\ \E t \in Texts : \E off \in 0..Len(t) :
          /\ text' = t
          /\ offset' = off
          /\ result' = findStructLiteralContext(t, off)
    /\ pc' = "context"
    /\ UNCHANGED <<span, body, content, hover, structContext, calls>>

\* A caller asks for the active field index of span t.
CallCountActiveFieldIndex ==
    /\ pc = "idle"
    /\ \E t \in Spans :
          /\ span' = t
          /\ result' = [defined |-> TRUE, index |-> countActiveFieldIndex(t)]
    /\ pc' = "count"
    /\ UNCHANGED <<text, offset, body, content, hover, structContext, calls>>

\* A caller asks for the fields of struct body b.
CallParseFields ==
    /\ pc = "idle"
    /\ \E b \in Bodies :
          /\ body' = b
          /\ result' = [defined |-> TRUE, fields |-> parseFields(b)]
    /\ pc' = "fields"
    /\ UNCHANGED <<text, offset, span, content, hover, structContext, calls>>

\* A caller asks for the struct a hover text c describes.
CallParseStructFromHover ==
    /\ pc = "idle"
    /\ \E c \in HoverTexts :
          /\ content' = c
          /\ result' = parseStructFromHover(c)
    /\ pc' = "struct"
    /\ UNCHANGED <<text, offset, span, body, hover, structContext, calls>>

\* provideSignatureHelp up to its await: without a context the request ends
\* with undefined; with one, getStructInfo has 'vscode.executeHoverProvider'
\* executed and waits.
ProvideSignatureHelp ==
    /\ pc = "idle"
    /\ \E t \in DocTexts : \E off \in 0..Len(t) :
          /\ text' = t
          /\ offset' = off
          /\ structContext' = findStructLiteralContext(t, off)
    /\ pc' = IF structContext'.defined THEN "awaitHover" ELSE "done"
    /\ result' = Absent
    /\ UNCHANGED <<span, body, content, hover, calls>>

\* provideSignatureHelp from the await on, the hover command having settled
\* with response.
Resume(response) ==
    LET structInfo == getStructInfo(response)
    IN  /\ hover' = response
        /\ pc' = IF structInfo.threw THEN "threw" ELSE "done"
        /\ result' =
               IF structInfo.threw \/ ~structInfo.value.defined THEN Absent
               ELSE buildSignatureHelp(structInfo.value, structContext.activeFieldIndex)
        /\ UNCHANGED <<text, offset, span, body, content, structContext, calls>>

\* The hover command resolves.
HoverResolves ==
    /\ pc = "awaitHover"
    /\ \E hovers \in HoverLists : Resume([threw |-> FALSE, hovers |-> hovers])

\* The hover command rejects.
HoverRejects ==
    /\ pc = "awaitHover"
    /\ Resume([threw |-> TRUE, hovers |-> Absent])

Next == ProvideSignatureHelp \/ HoverResolves \/ HoverRejects

\* A plausible slip: the context kept in one place for all calls instead of
\* in a local of each, so that a call resumed while others are suspended
\* reads the context of the highest-numbered suspended call.
SharedContext(cs, r) ==
    LET suspended == {q \in DOMAIN cs : cs[q].pc = "awaitHover"}
    IN  cs[CHOOSE q \in suspended : \A p \in suspended : p <= q].structContext

\* The structContext that call r reads after its await: the const of its
\* own activation.
LocalContext(cs, r) == cs[r].structContext

\* Call r of provideSignatureHelp up to its await, while any other calls
\* are idle, suspended or over.
BeginCall(r) ==
    /\ calls[r].pc = "idle"
    /\ \E t \in CallTexts : \E off \in 0..Len(t) :
          LET context == findStructLiteralContext(t, off)
          IN  calls' = [calls EXCEPT ![r] =
                           [pc |-> IF context.defined THEN "awaitHover" ELSE "done",
                            text |-> t,
                            offset |-> off,
                            structContext |-> context,
                            hover |-> Absent,
                            result |-> Absent,
                            resumedBefore |-> {}]]
    /\ UNCHANGED <<pc, text, offset, span, body, content, hover, structContext, result>>

\* Call r from its await on, the hover command having settled with
\* response.
ResumeCall(r, response) ==
    LET structInfo == getStructInfo(response)
    IN  /\ calls' = [calls EXCEPT ![r] =
                         [@ EXCEPT
                            !.pc = IF structInfo.threw THEN "threw" ELSE "done",
                            !.hover = response,
                            !.resumedBefore =
                                {q \in Requests \ {r} : calls[q].pc = "awaitHover"},
                            !.result =
                                IF structInfo.threw \/ ~structInfo.value.defined
                                THEN Absent
                                ELSE buildSignatureHelp(
                                         structInfo.value,
                                         LocalContext(calls, r).activeFieldIndex)]]
        /\ UNCHANGED <<pc, text, offset, span, body, content, hover, structContext, result>>

\* The hover command of call r resolves.
CallHoverResolves(r) ==
    /\ calls[r].pc = "awaitHover"
    /\ \E hovers \in CallHoverLists : ResumeCall(r, [threw |-> FALSE, hovers |-> hovers])

\* The hover command of call r rejects.
CallHoverRejects(r) ==
    /\ calls[r].pc = "awaitHover"
    /\ ResumeCall(r, [threw |-> TRUE, hovers |-> Absent])

\* The calls run on one thread: one of them at a time takes a step, from
\* its start to its await or from its await to its end.
NextCalls ==
    \E r \in Requests : BeginCall(r) \/ CallHoverResolves(r) \/ CallHoverRejects(r)

SpecCalls == Init /\ [][NextCalls]_vars

Spec == Init /\ [][Next]_vars

SpecContext == Init /\ [][CallFindStructLiteralContext]_vars

SpecCount == Init /\ [][CallCountActiveFieldIndex]_vars

SpecFields == Init /\ [][CallParseFields]_vars

SpecHover == Init /\ [][CallParseStructFromHover]_vars

\* ------------------------------------------------ claims about the context

\* The number of offsets k in a..b-1 at which t holds character c.
CountIn(t, a, b, c) == Cardinality({k \in a..(b - 1) : t[k + 1] = c})

\* The brace at offset i is an opening brace before off that no closing
\* brace between it and off matches: after it, the closing braces never
\* outnumber the opening ones.
Unmatched(t, off, i) ==
    /\ i < off
    /\ t[i + 1] = "{"
    /\ \A j \in (i + 1)..off :
          CountIn(t, i + 1, j, "}") <= CountIn(t, i + 1, j, "{")

UnmatchedBraces(t, off) == {i \in 0..(off - 1) : Unmatched(t, off, i)}

\* C1: when no opening brace before the offset is left unmatched by a later
\* closing brace before the offset, findStructLiteralContext returns
\* undefined.
C1_NoUnmatchedBraceIsAbsent ==
    (pc = "context" /\ UnmatchedBraces(text, offset) = {}) => result = Absent

\* C1 happens: a literal with a type name was opened and closed again before
\* the offset, and the result is undefined.
C1_Witness ==
    /\ pc = "context"
    /\ \E i \in 0..(offset - 1) :
          /\ text[i + 1] = "{"
          /\ i > 0
          /\ text[i] = "A"
    /\ UnmatchedBraces(text, offset) = {}
    /\ result = Absent

\* The rightmost unmatched opening brace before the offset.
InnermostBrace(t, off) ==
    CHOOSE i \in UnmatchedBraces(t, off) :
        \A k \in UnmatchedBraces(t, off) : k <= i

\* C2: a result rests on the innermost unmatched opening brace: typeName is
\* the name matched directly before that brace, and activeFieldIndex counts
\* the commas between that brace and the offset only, so it is never more
\* than the number of commas there are between them.
C2_InnermostBrace ==
    (pc = "context" /\ result.defined) =>
        /\ UnmatchedBraces(text, offset) # {}
        /\ LET b == InnermostBrace(text, offset)
               before == TypeMatch(TrimEnd(Substring(text, 0, b)))
           IN  /\ before.defined
               /\ result.typeName = before.g2
               /\ result.activeFieldIndex =
                      countActiveFieldIndex(Substring(text, b + 1, offset))
               /\ result.activeFieldIndex <= CountIn(text, b + 1, offset, ",")

\* C2 happens: a literal nested in a literal whose earlier field ended with a
\* comma; the result is that of the inner one.
C2_Witness ==
    /\ pc = "context"
    /\ result.defined
    /\ Cardinality(UnmatchedBraces(text, offset)) >= 2
    /\ LET b == InnermostBrace(text, offset)
       IN  /\ \E o \in UnmatchedBraces(text, offset) :
                 /\ o < b
                 /\ o > 0
                 /\ text[o] = "A"
                 /\ CountIn(text, o + 1, b, ",") > 0
           /\ result.activeFieldIndex = 0

\* The text before the candidate opening brace, trimmed.
TextBeforeBrace(t, off) == TrimEnd(Substring(t, 0, FindOpenBrace(t, off)))

\* The offset at which the maximal run of word characters that ends at
\* offset e starts.
RECURSIVE RunStart(_, _)
RunStart(s, e) ==
    IF e > 0 /\ s[e] \in WordChar THEN RunStart(s, e - 1) ELSE e

\* s ends with a qualified name A.B: two identifiers, neither beginning with
\* a digit, joined by a dot.
EndsQualified(s) ==
    LET bStart == RunStart(s, Len(s))
        aStart == RunStart(s, bStart - 1)
    IN  /\ bStart < Len(s)
        /\ s[bStart + 1] \notin Digit
        /\ bStart > 0
        /\ s[bStart] = "."
        /\ aStart < bStart - 1
        /\ s[aStart + 1] \notin Digit

\* The qualifier A and the final segment B of a text that ends with A.B.
QualifierOf(s) == Substring(s, RunStart(s, RunStart(s, Len(s)) - 1), RunStart(s, Len(s)) - 1)

FinalSegmentOf(s) == Substring(s, RunStart(s, Len(s)), Len(s))

\* The end of s from its first character of class cls on.
FromFirst(s, cls) ==
    Substring(s, (CHOOSE k \in 1..Len(s) :
                     /\ s[k] \in cls
                     /\ \A j \in 1..(k - 1) : s[j] \notin cls) - 1, Len(s))

\* C3 as stated: before the candidate brace stands a qualified name A.B, and
\* the typeName of the result holds no dot, whatever A begins with.
C3_Original ==
    (/\ pc = "context"
     /\ result.defined
     /\ EndsQualified(TextBeforeBrace(text, offset)))
        => "." \notin Chars(result.typeName)

\* C3, amended: the qualifier is dropped when it holds no upper case letter
\* and no underscore; typeName is then the end of B from B's first upper
\* case letter or underscore on, and holds no dot.  A qualifier that holds
\* one is kept from that character on: typeName is that end of A, a dot and
\* B (B then begins with an upper case letter or underscore).
C3_QualifierDroppedWhenLowerCase ==
    (/\ pc = "context"
     /\ result.defined
     /\ EndsQualified(TextBeforeBrace(text, offset)))
        => LET s == TextBeforeBrace(text, offset)
               A == QualifierOf(s)
               B == FinalSegmentOf(s)
           IN  IF Chars(A) \cap TypeStartChar = {} \/ B[1] \notin TypeStartChar
               THEN /\ "." \notin Chars(result.typeName)
                    /\ result.typeName = FromFirst(B, TypeStartChar)
               ELSE result.typeName = FromFirst(A, TypeStartChar) \o <<".">> \o B

\* C3 happens: a lower case qualifier stood before the type name and was
\* dropped.
C3_Witness ==
    /\ pc = "context"
    /\ result.defined
    /\ EndsQualified(TextBeforeBrace(text, offset))
    /\ QualifierOf(TextBeforeBrace(text, offset)) = <<"a">>
    /\ result.typeName = <<"A">>

\* ------------------------------------------------- claims about the count

\* The scanner is in neither string mode and all three depths are zero.
AtTopLevel(st) ==
    /\ ~st.inDoubleQuote
    /\ ~st.inBacktick
    /\ st.braceDepth = 0
    /\ st.parenDepth = 0
    /\ st.bracketDepth = 0

\* C4: the result is the number of commas the scanner meets while it is in
\* neither string mode and while the three depths are all exactly zero.
C4_CountsTopLevelCommas ==
    pc = "count" =>
        result.index =
            Cardinality({i \in 1..Len(span) :
                            /\ span[i] = ","
                            /\ AtTopLevel(ScanState(span, i - 1))})

\* C4 happens: one comma counted, and others not: in a string, or at a depth
\* that is positive, or negative.
C4_Witness ==
    /\ pc = "count"
    /\ result.index = 1
    /\ \E i \in 1..Len(span) :
          /\ span[i] = ","
          /\ LET st == ScanState(span, i - 1)
             IN  \/ st.inDoubleQuote
                 \/ st.inBacktick
                 \/ st.bracketDepth > 0
                 \/ st.braceDepth < 0

\* The number of consecutive backslashes that end right before the i-th
\* character of t.
RECURSIVE BackslashesBefore(_, _)
BackslashesBefore(t, i) ==
    IF i > 1 /\ t[i - 1] = "\\" THEN 1 + BackslashesBefore(t, i - 1) ELSE 0

\* C5 as stated, for the quotes that may close a string: a double quote met
\* in double-quoted mode toggles the mode unless an unescaped backslash
\* stands right before it, that is unless the backslashes before it are odd
\* in number; after an even number of them (an escaped backslash, as in
\* "a\\") it toggles and closes the string.
C5_QuoteAfterEscapedBackslashToggles ==
    pc = "count" =>
        \A i \in 1..Len(span) :
            (/\ span[i] = "\""
             /\ ~ScanState(span, i - 1).inBacktick
             /\ ScanState(span, i - 1).inDoubleQuote)
                => ((~ScanState(span, i).inDoubleQuote)
                       <=> (BackslashesBefore(span, i) % 2 = 0))

\* ------------------------------------------------ claims about parseFields

\* The lines of a struct body, as its newlines delimit them, trimmed.
BodyLines(b) ==
    LET ls == Split(b, {"\n"}) IN [i \in 1..Len(ls) |-> Trim(ls[i])]

\* The line reads: a name, white space, a type in one word, white space, a
\* tag between two backticks and then nothing more, or a // comment.
TaggedLine(l) ==
    LET nameEnd == RunEnd(l, 0, WordChar)
        typeStart == RunEnd(l, nameEnd, WhiteSpace)
        typeEnd == RunEndNot(l, typeStart, WhiteSpace \cup {Backtick, "/", ";"})
        tagOpen == RunEnd(l, typeEnd, WhiteSpace)
        tagClose == RunEndNot(l, tagOpen + 1, {Backtick})
        rest == Trim(Substring(l, tagClose + 1, Len(l)))
    IN  /\ nameEnd >= 1
        /\ typeStart > nameEnd
        /\ typeEnd > typeStart
        /\ tagOpen > typeEnd
        /\ tagOpen < Len(l)
        /\ l[tagOpen + 1] = Backtick
        /\ tagClose < Len(l)
        /\ rest = <<>> \/ StartsWithAt(rest, 0, <<"/", "/">>)

\* The name, the type and the text between the backticks of such a line.
TaggedLineParts(l) ==
    LET nameEnd == RunEnd(l, 0, WordChar)
        typeStart == RunEnd(l, nameEnd, WhiteSpace)
        typeEnd == RunEndNot(l, typeStart, WhiteSpace \cup {Backtick, "/", ";"})
        tagOpen == RunEnd(l, typeEnd, WhiteSpace)
        tagClose == RunEndNot(l, tagOpen + 1, {Backtick})
    IN  [name |-> Substring(l, 0, nameEnd),
         type |-> Substring(l, typeStart, typeEnd),
         tag |-> Substring(l, tagOpen + 1, tagClose)]

\* The fields hold one for line l, with the tag that stands in l.
HasFieldOf(fields, l) ==
    \E i \in 1..Len(fields) :
        /\ fields[i].name = TaggedLineParts(l).name
        /\ fields[i].type = TaggedLineParts(l).type
        /\ fields[i].tag = Some(TaggedLineParts(l).tag)

\* C6 as stated: every line of the body that reads name, type and a tag
\* between backticks (and maybe a // comment) yields a field whose tag is
\* the text between the backticks, whatever that text is, a semicolon
\* included.
C6_TagIsTextBetweenBackticks ==
    pc = "fields" =>
        \A i \in 1..Len(BodyLines(body)) :
            TaggedLine(BodyLines(body)[i])
                => HasFieldOf(result.fields, BodyLines(body)[i])

\* The same with the tags that hold a semicolon left out: this much the code
\* does.
C6_TagWithoutSemicolon ==
    pc = "fields" =>
        \A i \in 1..Len(BodyLines(body)) :
            (/\ TaggedLine(BodyLines(body)[i])
             /\ ";" \notin Chars(TaggedLineParts(BodyLines(body)[i]).tag))
                => HasFieldOf(result.fields, BodyLines(body)[i])

\* The texts of ls joined by newlines.
RECURSIVE JoinLines(_)
JoinLines(ls) ==
    IF ls = <<>> THEN <<>>
    ELSE IF Len(ls) = 1 THEN Head(ls)
    ELSE Head(ls) \o <<"\n">> \o JoinLines(Tail(ls))

IsCommentLine(l) == StartsWithAt(Trim(l), 0, <<"/", "/">>)

\* The body without its comment-only lines.
WithoutCommentLines(b) ==
    JoinLines(SelectSeq(Split(b, {"\n"}), LAMBDA l : ~IsCommentLine(l)))

\* C7 as stated: a line that begins with // yields no field whatever follows
\* the marker: the fields of a body are those of the body without such
\* lines.
C7_CommentLinesYieldNothing ==
    pc = "fields" => result.fields = parseFields(WithoutCommentLines(body))

\* The same for the comment lines that hold no semicolon: this much the code
\* does.
C7_CommentLinesWithoutSemicolon ==
    (/\ pc = "fields"
     /\ \A i \in 1..Len(Split(body, {"\n"})) :
           IsCommentLine(Split(body, {"\n"})[i])
               => ";" \notin Chars(Split(body, {"\n"})[i]))
        => result.fields = parseFields(WithoutCommentLines(body))

\* The n-th smallest member of a set of numbers.
Nth(S, n) == CHOOSE k \in S : Cardinality({j \in S : j <= k}) = n

\* C8: the fields are, one for one and in the order of the text, those of
\* the pieces of the body that match the field shape.
C8_FieldsInTextOrder ==
    pc = "fields" =>
        LET pieces == Lines(body)
            matching == {i \in 1..Len(pieces) : FieldMatch(pieces[i]).defined}
        IN  /\ Len(result.fields) = Cardinality(matching)
            /\ \A n \in 1..Len(result.fields) :
                  result.fields[n] = FieldMatch(pieces[Nth(matching, n)]).value

\* C8 happens: two different fields, and between or around them a piece that
\* is no field.
C8_Witness ==
    /\ pc = "fields"
    /\ Len(result.fields) = 2
    /\ result.fields[1].name = <<"N">>
    /\ result.fields[2].name = <<"M">>
    /\ Len(Lines(body)) = 3

\* --------------------------------------- claims about parseStructFromHover

\* The offsets at which a go-tagged fenced region of c opens: an opening
\* fence ```go at the end of a line, with a closing fence on a later line.
GoFences(c) ==
    {a \in 0..Len(c) :
        /\ StartsWithAt(c, a, FenceMark \o <<"g", "o", "\n">>)
        /\ \E e \in (a + 6)..Len(c) : StartsWithAt(c, e, <<"\n">> \o FenceMark)}

\* C9 as stated: a descriptor's documentation is the trimmed text before the
\* go-tagged fence (none when that is empty) when the text holds such a
\* fence, and none when it holds no such fence, whichever pattern matched.
C9_DocumentationIsTextBeforeFence ==
    (pc = "struct" /\ result.defined) =>
        result.documentation =
            IF GoFences(content) = {} THEN Absent
            ELSE IF Trim(Substring(content, 0, Least(GoFences(content)))) = <<>>
            THEN Absent
            ELSE Some(Trim(Substring(content, 0, Least(GoFences(content)))))

\* The same for the descriptors of the full type definition pattern in texts
\* whose first fence is the go fence or that hold no fence at all: this much
\* the code does.
C9_FullPatternFirstFence ==
    (/\ pc = "struct"
     /\ result.defined
     /\ LET cb == CodeBlockMatch(content)
        IN  StructMatch(IF cb.defined THEN cb.g1 ELSE content).defined
     /\ \A a \in 0..Len(content) :
           StartsWithAt(content, a, FenceMark)
               => /\ GoFences(content) # {}
                  /\ a >= Least(GoFences(content)))
        => result.documentation =
               IF GoFences(content) = {} THEN Absent
               ELSE IF Trim(Substring(content, 0, Least(GoFences(content)))) = <<>>
               THEN Absent
               ELSE Some(Trim(Substring(content, 0, Least(GoFences(content)))))

\* ------------------------------------------------ claims about the provider

\* A signature help as the editor expects it: one signature, which the
\* active signature names, and for each parameter a range of the label.
WellFormedHelp(h) ==
    /\ h.defined
    /\ Len(h.signatures) = 1
    /\ h.activeSignature = 0
    /\ LET sig == h.signatures[1]
       IN  /\ Len(sig.label) >= 2
           /\ sig.label[Len(sig.label)] = "}"
           /\ \A i \in 1..Len(sig.parameters) :
                 /\ 0 <= sig.parameters[i].label[1]
                 /\ sig.parameters[i].label[1] <= sig.parameters[i].label[2]
                 /\ sig.parameters[i].label[2] < Len(sig.label)
                 /\ i > 1 => sig.parameters[i - 1].label[2] < sig.parameters[i].label[1]

C12_OffsetLocatesTypeName ==
    (pc = "context" /\ result.defined) =>
        LET openBraceOffset == FindOpenBrace(text, offset)
            typeEnd == result.typeStartOffset + Len(result.typeName)
        IN  /\ result.typeStartOffset >= 0
            /\ typeEnd <= openBraceOffset
            /\ Substring(text, result.typeStartOffset, typeEnd) = result.typeName
            /\ Chars(Substring(text, typeEnd, openBraceOffset)) \subseteq WhiteSpace
            /\ text[result.typeStartOffset + 1] \in TypeStartChar

\* C12 happens: the type name follows '&' and a blank, and a blank separates
\* it from the brace.
C12_Witness ==
    /\ pc = "context"
    /\ result.defined
    /\ result.typeStartOffset = 2
    /\ text[1] = "&"
    /\ text[2] = " "
    /\ FindOpenBrace(text, offset) > result.typeStartOffset + Len(result.typeName)

\* ------------------------------------------ claims about whole identifiers

\* C14: whenever a context is returned, the type name is a whole identifier
\* of the document: no letter, digit or underscore stands immediately before
\* the type start offset; and when the identifier that ends the text before
\* the candidate brace begins with a lowercase letter, no context is
\* returned.
C14_TypeNameIsWholeIdentifier ==
    pc = "context" =>
        /\ result.defined =>
               \/ result.typeStartOffset = 0
               \/ text[result.typeStartOffset] \notin WordChar
        /\ LET s == TextBeforeBrace(text, offset)
               tokenStart == RunStart(s, Len(s))
           IN  (/\ FindOpenBrace(text, offset) # -1
                /\ tokenStart < Len(s)
                /\ s[tokenStart + 1] \in Lower) => ~result.defined

\* ------------------------------------- claims about the active parameter

\* C13: whenever a request ends with a signature help, its active parameter
\* is an index of the signature's parameter list: at least 0 and at most the
\* number of fields less one, a struct without fields included.
C13_ActiveParameterIsValidIndex ==
    (pc = "done" /\ result.defined) =>
        /\ 0 <= result.activeParameter
        /\ result.activeParameter <= Len(result.signatures[1].parameters) - 1

\* ------------------------------------------ claims about overlapping calls

\* What a call on document t at offset off returns when it runs alone and
\* the hover command settles with response.
provideSignatureHelpAlone(t, off, response) ==
    LET context == findStructLiteralContext(t, off)
        structInfo == getStructInfo(response)
    IN  IF ~context.defined THEN Absent
        ELSE IF structInfo.threw \/ ~structInfo.value.defined THEN Absent
        ELSE buildSignatureHelp(structInfo.value, context.activeFieldIndex)

\* Call c is where a call alone on its document, offset and response is.
AsAlone(c) ==
    /\ c.pc = "idle" => c = IdleCall
    /\ c.pc # "idle" => c.structContext = findStructLiteralContext(c.text, c.offset)
    /\ c.pc = "awaitHover" =>
           c.structContext.defined /\ c.hover = Absent /\ c.result = Absent
    /\ c.pc = "done" =>
           c.result = provideSignatureHelpAlone(c.text, c.offset, c.hover)

\* A step of one call leaves the locals of every other call as they were,
\* and no step changes the document, offset or context of a call that has
\* begun.
OneCallSteps ==
    \A r \in Requests :
        /\ calls'[r] # calls[r] =>
               \A q \in Requests \ {r} : calls'[q] = calls[q]
        /\ calls[r].pc # "idle" =>
               /\ calls'[r].text = calls[r].text
               /\ calls'[r].offset = calls[r].offset
               /\ calls'[r].structContext = calls[r].structContext

\* C11: calls that overlap are independent under every interleaving of
\* their steps: each call's result is what the call alone returns for its
\* own document, offset and hover response, and no step of a call changes
\* what another call holds.
C11_CallsAreIndependent ==
    /\ [](\A r \in Requests : AsAlone(calls[r]))
    /\ [][OneCallSteps]_vars

\* C11 happens: two calls were suspended together, on a literal with one
\* comma typed and on one with none; call 1 was resumed first, with a struct
\* of two fields, then call 2, and each has ended with the signature help
\* of its own document.
C11_Witness ==
    /\ calls[1].pc = "done"
    /\ calls[2].pc = "done"
    /\ 2 \in calls[1].resumedBefore
    /\ calls[1].text # calls[2].text
    /\ calls[1].result.defined
    /\ calls[2].result.defined
    /\ calls[1].structContext.activeFieldIndex = 1
    /\ calls[2].structContext.activeFieldIndex = 0
    /\ calls[1].result.activeParameter = 1
    /\ calls[2].result.activeParameter = 0

====
